---- MODULE Spec2Model ----
(***************************************************************************)
(* Model of package cache (src/unnamed/part_000): a map from node id to a  *)
(* pointer to an xds Snapshot, i.e. six Resources{Version, Items} where    *)
(* Items is a Go map (a reference).  Go maps are modelled as heap objects  *)
(* so that the struct copy made by SetSnapshot shares the Items maps with  *)
(* the cache, exactly as the Go value copy *cache[nodeID] does.            *)
(***************************************************************************)
EXTENDS Integers, Sequences, FiniteSets, TLC

VARIABLES cache,      \* the Cache map: node id -> the Snapshot its pointer leads to
          heap,       \* Go heap: address -> contents of an Items map
          xds,        \* snapshots held by the xds SnapshotCache, per node id
          last,       \* the last call: op, node, returned value, error
          crashed,    \* the process died on a runtime panic / fatal error
          published,  \* history: what was deposited at the latest SetSnapshot
          corrupts,   \* history: number of external writes to a Version field
          procs,      \* concurrent callers: where each goroutine is, and its locals
          writing,    \* the goroutines inside an assignment to / delete from the Cache map
          recon,      \* the reconciling caller: its desired resources and where its cycle is
          hook,       \* the admission webhook: the EnvoyConfig it is given and its verdict
          gen         \* the container generator: the ContainerConfig it is given and its result

wvars == <<procs, writing>>
cvars == <<cache, heap, xds, last, crashed, published, corrupts, procs, writing, recon, gen>>
gvars == <<cache, heap, xds, last, crashed, published, corrupts, procs, writing, recon, hook>>
vars == <<cache, heap, xds, last, crashed, published, corrupts, procs, writing, recon, hook, gen>>

----------------------------------------------------------------------------
\* Bounds of the model
MaxItems   == 2    \* map entries alive in the heap
MaxVersion == 3    \* versions reached by bumping
MaxCorrupt == 1    \* external writes to a Version field
MaxWorkerOps == 2  \* calls of NewNodeCache / DeleteNodeCache and transactions per goroutine
MaxResources == 1  \* entries of spec.Resources / spec.EnvoyResources of an EnvoyConfig
MaxPorts == 1      \* entries of ContainerConfig.Ports
MaxExtraArgs == 1  \* entries of ContainerConfig.ExtraArgs

Nodes  == {"n1", "n2"}
Names  == {"a", "b"}
Values == {"v1", "v2"}

Nil == "nil"   \* a nil pointer / nil error

\* const block, src/unnamed/part_000:50-64 (values of go-control-plane's ResponseType)
startingVersion == 1
Endpoint == 0
Cluster  == 1
Route    == 2
Listener == 3
Secret   == 4
Runtime  == 5
RTypes == 0..5
\* the resource types the callers of the model pass in
InTypes == {Endpoint, Cluster}

----------------------------------------------------------------------------
\* strconv: decimal strings are sequences of one-character strings

DigitChars == <<"0", "1", "2", "3", "4", "5", "6", "7", "8", "9">>
Digits == {DigitChars[i] : i \in 1..10}

DigitVal(ch) == (CHOOSE i \in 1..10 : DigitChars[i] = ch) - 1

RECURSIVE UItoa(_)
UItoa(n) == IF n < 10 THEN <<DigitChars[n + 1]>>
            ELSE UItoa(n \div 10) \o <<DigitChars[(n % 10) + 1]>>

\* strconv.Itoa
Itoa(n) == IF n < 0 THEN <<"-">> \o UItoa(0 - n) ELSE UItoa(n)

RECURSIVE DigitsVal(_)
DigitsVal(s) == IF Len(s) = 0 THEN 0
                ELSE 10 * DigitsVal(SubSeq(s, 1, Len(s) - 1)) + DigitVal(s[Len(s)])

AtoiBody(s) == IF Len(s) > 0 /\ s[1] \in {"+", "-"} THEN Tail(s) ELSE s

\* strconv.Atoi: err == nil
AtoiOk(s) == /\ Len(AtoiBody(s)) > 0
             /\ \A i \in 1..Len(AtoiBody(s)) : AtoiBody(s)[i] \in Digits

\* strconv.Atoi: the value when err == nil
AtoiVal(s) == IF Len(s) > 0 /\ s[1] = "-" THEN 0 - DigitsVal(AtoiBody(s))
              ELSE DigitsVal(AtoiBody(s))

----------------------------------------------------------------------------
\* Go maps (map[string]Resource)

NotFound == "nil"   \* the zero value of the Resource interface

EmptyMap == [k \in {} |-> NotFound]
MapSet(m, k, v) == [x \in (DOMAIN m) \cup {k} |-> IF x = k THEN v ELSE m[x]]
MapDelete(m, k) == [x \in (DOMAIN m) \ {k} |-> m[x]]
MapGet(m, k) == IF k \in DOMAIN m THEN m[k] ELSE NotFound

\* Addresses are not observable in Go, so they are names: the k-th map a call
\* makes is at NewAddr(k), and after every call that makes or drops maps the
\* heap is laid out again: the map of cache[n].Resources[t] at CacheAddr(n, t),
\* a map only the xds server still holds at XdsAddr(n, t); a map nobody refers
\* to is garbage and leaves the heap.
NewAddr(k) == <<"new", "", k>>
CacheAddr(n, t) == <<"cache", n, t>>
XdsAddr(n, t) == <<"xds", n, t>>
Shared(c, x, n, t) == /\ n \in DOMAIN c
                      /\ n \in DOMAIN x
                      /\ x[n].Resources[t].Items = c[n].Resources[t].Items
\* the map at an address; an address the heap does not have yet is a map just made
Deref(h, a) == IF a \in DOMAIN h THEN h[a] ELSE EmptyMap
Relocate(c, h, x) ==
    [cache |-> [n \in DOMAIN c |-> [Resources |-> [t \in RTypes |->
                   [c[n].Resources[t] EXCEPT !.Items = CacheAddr(n, t)]]]],
     xds   |-> [n \in DOMAIN x |-> [Resources |-> [t \in RTypes |->
                   [x[n].Resources[t] EXCEPT !.Items =
                       IF Shared(c, x, n, t) THEN CacheAddr(n, t) ELSE XdsAddr(n, t)]]]],
     heap  |-> [a \in {CacheAddr(n, t) : n \in DOMAIN c, t \in RTypes}
                      \cup {XdsAddr(k[1], k[2]) :
                               k \in {k \in (DOMAIN x) \X RTypes : ~Shared(c, x, k[1], k[2])}} |->
                   IF a[1] = "cache"
                   THEN Deref(h, c[a[2]].Resources[a[3]].Items)
                   ELSE Deref(h, x[a[2]].Resources[a[3]].Items)]]

\* xds_cache.NewResources(version, []Resource{}): a Resources over a new empty map
NewResources(version, addr) == [Version |-> version, Items |-> addr]

\* number of map entries alive
HeapItems(h) == Cardinality(UNION {{a} \X DOMAIN h[a] : a \in DOMAIN h})

\* a snapshot as a reader sees it: the maps dereferenced
View(snap, h) == [t \in RTypes |-> [Version |-> snap.Resources[t].Version,
                                    Items   |-> h[snap.Resources[t].Items]]]

\* a table of snapshots (Go map from node id) as a reader sees it
Views(tbl, h) == [n \in DOMAIN tbl |-> View(tbl[n], h)]

\* m[k] = v on a Go map keyed by node id, and delete(m, k)
Put(tbl, k, v) == [n \in (DOMAIN tbl) \cup {k} |-> IF n = k THEN v ELSE tbl[n]]
Drop(tbl, k) == [n \in (DOMAIN tbl) \ {k} |-> tbl[n]]
NoNodes == [n \in {} |-> Nil]

----------------------------------------------------------------------------
\* The methods of Cache.  Each takes the cache c (and the heap h, the xds
\* table x) and gives the one it writes.

\* NewNodeCache as an "ensure the node exists": an existing snapshot is kept
NewNodeCache_Keep(c, nodeID) ==
    IF nodeID \in DOMAIN c THEN c
    ELSE Put(c, nodeID, [Resources |-> [t \in RTypes |->
             NewResources(Itoa(startingVersion), NewAddr(t + 1))]])

\* NewNodeCache that counts versions from zero
NewNodeCache_Zero(c, nodeID) ==
    Put(c, nodeID, [Resources |-> [t \in RTypes |->
            NewResources(Itoa(startingVersion - 1), NewAddr(t + 1))]])

\* NewNodeCache: a fresh snapshot, six new empty maps, all at startingVersion
NewNodeCache(c, nodeID) ==
    LET version == Itoa(startingVersion)
        \* order of the six NewResources calls: Listener, Endpoint, Cluster, Route, Secret, Runtime
        slot == [t \in RTypes |->
                   CASE t = Listener -> 1 [] t = Endpoint -> 2 [] t = Cluster -> 3
                     [] t = Route -> 4 [] t = Secret -> 5 [] t = Runtime -> 6]
        ncache == [Resources |-> [t \in RTypes |-> NewResources(version, NewAddr(slot[t]))]]
    IN Put(c, nodeID, ncache)

\* DeleteNodeCache that starts the cache over
DeleteNodeCache_All(c, nodeID) == NoNodes

\* DeleteNodeCache: delete(cache, nodeID)
DeleteNodeCache(c, nodeID) == Drop(c, nodeID)

\* GetNodeCache: cache[nodeID], nil when the key is missing
GetNodeCache(c, nodeID) == IF nodeID \in DOMAIN c THEN "ptr" ELSE Nil

\* SetResource that rebuilds the map from the one entry
SetResource_Clobber(c, h, nodeID, name, rtype, value) ==
    [h EXCEPT ![c[nodeID].Resources[rtype].Items] = MapSet(EmptyMap, name, value)]

\* SetResource: cache[nodeID].Resources[rtype].Items[name] = value (writes into the map)
SetResource(c, h, nodeID, name, rtype, value) ==
    [h EXCEPT ![c[nodeID].Resources[rtype].Items] = MapSet(@, name, value)]

\* GetResource: cache[nodeID].Resources[rtype].Items[name]
GetResource(c, h, nodeID, name, rtype) ==
    MapGet(h[c[nodeID].Resources[rtype].Items], name)

\* DeleteResource: delete(cache[nodeID].Resources[rtype].Items, name)
DeleteResource(c, h, nodeID, name, rtype) ==
    [h EXCEPT ![c[nodeID].Resources[rtype].Items] = MapDelete(@, name)]

\* ClearResources that replaces the whole Resources by NewResources at startingVersion
ClearResources_Reset(c, nodeID, rtype) ==
    [c EXCEPT ![nodeID].Resources[rtype] =
        NewResources(Itoa(startingVersion), NewAddr(1))]

\* ClearResources that empties the next collection too
ClearResources_Spill(c, nodeID, rtype) ==
    [c EXCEPT ![nodeID].Resources =
        [t \in RTypes |-> IF t = rtype THEN [@[t] EXCEPT !.Items = NewAddr(1)]
                          ELSE IF t = (rtype + 1) % 6
                          THEN [@[t] EXCEPT !.Items = NewAddr(2)]
                          ELSE @[t]]]

\* ClearResources: the Items field is pointed at a new empty map
ClearResources(c, nodeID, rtype) ==
    [c EXCEPT ![nodeID].Resources[rtype].Items = NewAddr(1)]

\* SetSnapshot that deposits only when the xds server has nothing for the node
SetSnapshot_Once(c, x, nodeID) == IF nodeID \in DOMAIN x THEN x ELSE Put(x, nodeID, c[nodeID])

\* SetSnapshot: snapshotCache.SetSnapshot(nodeID, *cache[nodeID]); the struct is
\* copied by value, so the Version strings are copied and the Items maps shared
SetSnapshot(c, x, nodeID) == Put(x, nodeID, c[nodeID])

\* GetCurrentVersion: strconv.Atoi(cache[nodeID].Resources[0].Version)
GetCurrentVersion(c, nodeID) ==
    LET s == c[nodeID].Resources[0].Version
    IN IF AtoiOk(s) THEN [ret |-> AtoiVal(s), err |-> Nil]
       ELSE [ret |-> 0, err |-> "NumError"]

\* BumpCacheVersion whose loop stops one short (i < 5)
BumpCacheVersion_Short(c, nodeID) ==
    LET s == c[nodeID].Resources[0].Version
        version == AtoiVal(s) + 1
        sversion == Itoa(version)
    IN IF ~AtoiOk(s) THEN [cache |-> c, ret |-> 0, err |-> "NumError"]
       ELSE [cache |-> [c EXCEPT ![nodeID].Resources =
                            [i \in RTypes |-> IF i < 5 THEN [@[i] EXCEPT !.Version = sversion]
                                              ELSE @[i]]],
             ret |-> version, err |-> Nil]

\* BumpCacheVersion whose loop starts at i := 1
BumpCacheVersion_Skip(c, nodeID) ==
    LET s == c[nodeID].Resources[0].Version
        version == AtoiVal(s) + 1
        sversion == Itoa(version)
    IN IF ~AtoiOk(s) THEN [cache |-> c, ret |-> 0, err |-> "NumError"]
       ELSE [cache |-> [c EXCEPT ![nodeID].Resources =
                            [i \in RTypes |-> IF i >= 1 THEN [@[i] EXCEPT !.Version = sversion]
                                              ELSE @[i]]],
             ret |-> version, err |-> Nil]

\* BumpCacheVersion that drops the error of Atoi (which then gives 0)
BumpCacheVersion_NoErr(c, nodeID) ==
    LET s == c[nodeID].Resources[0].Version
        version == (IF AtoiOk(s) THEN AtoiVal(s) ELSE 0) + 1
        sversion == Itoa(version)
    IN [cache |-> [c EXCEPT ![nodeID].Resources =
                            [i \in RTypes |-> [@[i] EXCEPT !.Version = sversion]]],
        ret |-> version, err |-> Nil]

\* BumpCacheVersion: parse Resources[0].Version, add one, write to all six
BumpCacheVersion(c, nodeID) ==
    LET s == c[nodeID].Resources[0].Version
        version == AtoiVal(s) + 1
        sversion == Itoa(version)
    IN IF ~AtoiOk(s) THEN [cache |-> c, ret |-> 0, err |-> "NumError"]
       ELSE [cache |-> [c EXCEPT ![nodeID].Resources =
                            [i \in RTypes |-> [@[i] EXCEPT !.Version = sversion]]],
             ret |-> version, err |-> Nil]

----------------------------------------------------------------------------
\* One call of each method by a single caller

\* ret: the returned int; val: the returned Resource or pointer (for SetSnapshot:
\* what the xds server answered to the method); err: the error the method returns
Call(op, nodeID, ret, val, err) ==
    [op |-> op, node |-> nodeID, ret |-> ret, val |-> val, err |-> err]

\* the memory after a call that allocates or drops maps
Store(c, h, x) ==
    \E r \in {Relocate(c, h, x)} :
        /\ cache' = r.cache
        /\ heap' = r.heap
        /\ xds' = r.xds

\* cache[nodeID] is nil and the method dereferences it: runtime panic
Panic(op, nodeID) ==
    /\ nodeID \notin DOMAIN cache
    /\ crashed' = TRUE
    /\ last' = Call(op, nodeID, 0, Nil, "panic")
    /\ UNCHANGED <<cache, heap, xds, published, corrupts, wvars, recon, hook, gen>>

Workers == {"w1", "w2"}
Idle(n) == [pc |-> "idle", node |-> n, version |-> 0, i |-> 0, ops |-> 0]

\* NewCache()
InitCache ==
    /\ cache = NoNodes
    /\ heap = [a \in {} |-> EmptyMap]
    /\ xds = NoNodes
    /\ last = Call("NewCache", Nil, 0, Nil, Nil)
    /\ crashed = FALSE
    /\ published = NoNodes
    /\ corrupts = 0
    /\ writing = {}

\* no reconciling caller
ReconOff == [pc |-> "off", node |-> Nil, desired |-> EmptyMap, todo |-> {}, cycles |-> 0]

\* no EnvoyConfig under validation
HookOff == [pc |-> "off", obj |-> [Resources |-> [nil |-> TRUE, elems |-> << >>],
                                   EnvoyResources |-> [nil |-> TRUE, elems |-> << >>]],
            op |-> Nil, err |-> Nil]

\* no call of the container generator
GenOff == [pc |-> "off", cc |-> Nil, out |-> << >>]

Init ==
    /\ InitCache
    /\ procs = [w \in Workers |-> Idle("n1")]
    /\ recon = ReconOff
    /\ hook = HookOff
    /\ gen = GenOff

DoNewNodeCache(nodeID) ==
    /\ ~crashed
    /\ Store(NewNodeCache(cache, nodeID), heap, xds)
    /\ last' = Call("NewNodeCache", nodeID, 0, Nil, Nil)
    /\ UNCHANGED <<crashed, published, corrupts, wvars, recon, hook, gen>>

DoDeleteNodeCache(nodeID) ==
    /\ ~crashed
    /\ Store(DeleteNodeCache(cache, nodeID), heap, xds)
    /\ last' = Call("DeleteNodeCache", nodeID, 0, Nil, Nil)
    /\ UNCHANGED <<crashed, published, corrupts, wvars, recon, hook, gen>>

DoGetNodeCache(nodeID) ==
    /\ ~crashed
    /\ last' = Call("GetNodeCache", nodeID, 0, GetNodeCache(cache, nodeID), Nil)
    /\ UNCHANGED <<cache, heap, xds, crashed, published, corrupts, wvars, recon, hook, gen>>

DoSetResource(nodeID, name, rtype, value) ==
    /\ ~crashed
    /\ \/ /\ nodeID \in DOMAIN cache
          /\ \/ HeapItems(heap) < MaxItems
             \/ name \in DOMAIN heap[cache[nodeID].Resources[rtype].Items]
          /\ heap' = SetResource(cache, heap, nodeID, name, rtype, value)
          /\ last' = Call("SetResource", nodeID, 0, Nil, Nil)
          /\ UNCHANGED <<cache, xds, crashed, published, corrupts, wvars, recon, hook, gen>>
       \/ Panic("SetResource", nodeID)

DoGetResource(nodeID, name, rtype) ==
    /\ ~crashed
    /\ \/ /\ nodeID \in DOMAIN cache
          /\ last' = Call("GetResource", nodeID, 0,
                          GetResource(cache, heap, nodeID, name, rtype), Nil)
          /\ UNCHANGED <<cache, heap, xds, crashed, published, corrupts, wvars, recon, hook, gen>>
       \/ Panic("GetResource", nodeID)

DoDeleteResource(nodeID, name, rtype) ==
    /\ ~crashed
    /\ \/ /\ nodeID \in DOMAIN cache
          /\ heap' = DeleteResource(cache, heap, nodeID, name, rtype)
          /\ last' = Call("DeleteResource", nodeID, 0, Nil, Nil)
          /\ UNCHANGED <<cache, xds, crashed, published, corrupts, wvars, recon, hook, gen>>
       \/ Panic("DeleteResource", nodeID)

DoClearResources(nodeID, rtype) ==
    /\ ~crashed
    /\ \/ /\ nodeID \in DOMAIN cache
          /\ Store(ClearResources(cache, nodeID, rtype), heap, xds)
          /\ last' = Call("ClearResources", nodeID, 0, Nil, Nil)
          /\ UNCHANGED <<crashed, published, corrupts, wvars, recon, hook, gen>>
       \/ Panic("ClearResources", nodeID)

DoSetSnapshot(nodeID) ==
    /\ ~crashed
    /\ \/ /\ nodeID \in DOMAIN cache
          /\ Store(cache, heap, SetSnapshot(cache, xds, nodeID))
          /\ published' = Put(published, nodeID, View(cache[nodeID], heap))
          /\ last' = Call("SetSnapshot", nodeID, 0, Nil, Nil)
          /\ UNCHANGED <<crashed, corrupts, wvars, recon, hook, gen>>
       \/ Panic("SetSnapshot", nodeID)

\* SetSnapshot when snapshotCache.SetSnapshot answers with an error: the
\* statement at line 122 drops the answer and the method has no result
PublishFailure == "PublishFailure"
DoSetSnapshotRefused(nodeID) ==
    /\ ~crashed
    /\ \/ /\ nodeID \in DOMAIN cache
          /\ last' = Call("SetSnapshot", nodeID, 0, PublishFailure, Nil)
          /\ UNCHANGED <<cache, heap, xds, crashed, published, corrupts, wvars, recon, hook, gen>>
       \/ Panic("SetSnapshot", nodeID)

DoGetCurrentVersion(nodeID) ==
    /\ ~crashed
    /\ \/ /\ nodeID \in DOMAIN cache
          /\ LET r == GetCurrentVersion(cache, nodeID)
             IN last' = Call("GetCurrentVersion", nodeID, r.ret, Nil, r.err)
          /\ UNCHANGED <<cache, heap, xds, crashed, published, corrupts, wvars, recon, hook, gen>>
       \/ Panic("GetCurrentVersion", nodeID)

DoBumpCacheVersion(nodeID) ==
    /\ ~crashed
    /\ \/ /\ nodeID \in DOMAIN cache
          /\ LET r == BumpCacheVersion(cache, nodeID)
             IN /\ r.ret <= MaxVersion
                /\ cache' = r.cache
                /\ last' = Call("BumpCacheVersion", nodeID, r.ret, Nil, r.err)
          /\ UNCHANGED <<heap, xds, crashed, published, corrupts, wvars, recon, hook, gen>>
       \/ Panic("BumpCacheVersion", nodeID)

\* The cache alone: the methods that write it, by one caller, on two nodes.
\* (What the reading methods return in a state is GetResource, GetNodeCache and
\* GetCurrentVersion of that state; they are called in NextPublish.)
Next ==
    \/ \E n \in Nodes : DoNewNodeCache(n)
    \/ \E n \in Nodes : DoDeleteNodeCache(n)
    \/ \E n \in Nodes, nm \in Names, t \in InTypes, v \in Values : DoSetResource(n, nm, t, v)
    \/ \E n \in Nodes, nm \in Names, t \in InTypes : DoDeleteResource(n, nm, t)
    \/ \E n \in Nodes, t \in InTypes : DoClearResources(n, t)
    \/ \E n \in Nodes : DoBumpCacheVersion(n)

Spec == Init /\ [][Next]_vars

\* The cache and the xds server: every method, by one caller.  Node n1 receives
\* the resources and is published; the other node is only created and deleted.
PubNodes  == {"n1"}
PubNames  == {"a"}
PubTypes  == {Cluster}
PubValues == {"v1", "v2"}

NextPublish ==
    \/ \E n \in Nodes : DoNewNodeCache(n)
    \/ \E n \in Nodes : DoDeleteNodeCache(n)
    \/ \E n \in PubNodes : DoGetNodeCache(n)
    \/ \E n \in PubNodes, nm \in PubNames, t \in PubTypes, v \in PubValues :
          DoSetResource(n, nm, t, v)
    \/ \E n \in PubNodes, nm \in PubNames, t \in PubTypes : DoGetResource(n, nm, t)
    \/ \E n \in PubNodes, nm \in PubNames, t \in PubTypes : DoDeleteResource(n, nm, t)
    \/ \E n \in PubNodes, t \in PubTypes : DoClearResources(n, t)
    \/ \E n \in PubNodes : DoSetSnapshot(n)
    \/ \E n \in PubNodes : DoGetCurrentVersion(n)
    \/ \E n \in PubNodes : DoBumpCacheVersion(n)

SpecPublish == Init /\ [][NextPublish]_vars

\* The same with an xds server that may refuse a snapshot
NextRefuse ==
    \/ NextPublish
    \/ \E n \in PubNodes : DoSetSnapshotRefused(n)

SpecRefuse == Init /\ [][NextRefuse]_vars

\* A caller writes a Version field through the pointer GetNodeCache returned
CorruptStrings == {<<"x">>, << >>, <<"0">>, <<"-", "3">>}

DoCorruptVersion(nodeID, rtype, str) ==
    /\ ~crashed
    /\ nodeID \in DOMAIN cache
    /\ corrupts < MaxCorrupt
    /\ corrupts' = corrupts + 1
    /\ cache' = [cache EXCEPT ![nodeID].Resources[rtype].Version = str]
    /\ last' = Call("CorruptVersion", nodeID, 0, Nil, Nil)
    /\ UNCHANGED <<heap, xds, crashed, published, wvars, recon, hook, gen>>

\* The cache of one node whose Version fields are also written from outside
NextCorrupt ==
    \/ \E n \in PubNodes : DoNewNodeCache(n)
    \/ \E n \in PubNodes : DoDeleteNodeCache(n)
    \/ \E n \in PubNodes, nm \in PubNames, t \in InTypes, v \in PubValues :
          DoSetResource(n, nm, t, v)
    \/ \E n \in PubNodes, nm \in PubNames, t \in InTypes : DoDeleteResource(n, nm, t)
    \/ \E n \in PubNodes, t \in InTypes : DoClearResources(n, t)
    \/ \E n \in PubNodes : DoGetCurrentVersion(n)
    \/ \E n \in PubNodes : DoBumpCacheVersion(n)
    \/ \E n \in PubNodes, t \in InTypes, str \in CorruptStrings : DoCorruptVersion(n, t, str)

SpecCorrupt == Init /\ [][NextCorrupt]_vars

----------------------------------------------------------------------------
\* One caller reconciles a node the way the package is meant to be driven:
\* NewNodeCache once, then cycles of SetResource for every desired resource,
\* BumpCacheVersion, SetSnapshot.  The desired resources are the same in every
\* cycle: a Go-map-like table from <<rtype, name>> to the value.

DesiredSets ==
    UNION {[K -> Values] : K \in {K \in SUBSET (InTypes \X Names) : Cardinality(K) <= MaxItems}}

InitCycle ==
    /\ InitCache
    /\ procs = [w \in Workers |-> Idle("n1")]
    /\ \E n \in Nodes, d \in DesiredSets :
          recon = [pc |-> "create", node |-> n, desired |-> d, todo |-> {}, cycles |-> 0]
    /\ hook = HookOff
    /\ gen = GenOff

RNewNodeCache ==
    /\ ~crashed /\ recon.pc = "create"
    /\ Store(NewNodeCache(cache, recon.node), heap, xds)
    /\ last' = Call("NewNodeCache", recon.node, 0, Nil, Nil)
    /\ recon' = [recon EXCEPT !.pc = "mutate", !.todo = DOMAIN recon.desired]
    /\ UNCHANGED <<crashed, published, corrupts, wvars, hook, gen>>

RSetResource ==
    /\ ~crashed /\ recon.pc = "mutate"
    /\ \E k \in recon.todo :
          /\ heap' = SetResource(cache, heap, recon.node, k[2], k[1], recon.desired[k])
          /\ recon' = [recon EXCEPT !.todo = @ \ {k}]
    /\ last' = Call("SetResource", recon.node, 0, Nil, Nil)
    /\ UNCHANGED <<cache, xds, crashed, published, corrupts, wvars, hook, gen>>

RBumpCacheVersion ==
    /\ ~crashed /\ recon.pc = "mutate" /\ recon.todo = {}
    /\ LET r == BumpCacheVersion(cache, recon.node)
       IN /\ r.ret <= MaxVersion
          /\ cache' = r.cache
          /\ last' = Call("BumpCacheVersion", recon.node, r.ret, Nil, r.err)
    /\ recon' = [recon EXCEPT !.pc = "publish"]
    /\ UNCHANGED <<heap, xds, crashed, published, corrupts, wvars, hook, gen>>

RSetSnapshot ==
    /\ ~crashed /\ recon.pc = "publish"
    /\ Store(cache, heap, SetSnapshot(cache, xds, recon.node))
    /\ published' = Put(published, recon.node, View(cache[recon.node], heap))
    /\ last' = Call("SetSnapshot", recon.node, 0, Nil, Nil)
    /\ recon' = [recon EXCEPT !.pc = "mutate", !.todo = DOMAIN recon.desired, !.cycles = @ + 1]
    /\ UNCHANGED <<crashed, corrupts, wvars, hook, gen>>

NextCycle ==
    \/ RNewNodeCache
    \/ RSetResource
    \/ RBumpCacheVersion
    \/ RSetSnapshot

SpecCycle == InitCycle /\ [][NextCycle]_vars

----------------------------------------------------------------------------
\* Two goroutines call the cache with no lock between them (the package has
\* none).  Each works on one node id: both on the same, or one on each.  A
\* goroutine creates or deletes its node, or runs a transaction: SetResource /
\* DeleteResource calls, then BumpCacheVersion, then SetSnapshot.
\* An assignment to the Cache map takes two steps (it begins, it lands); every
\* other access to memory is one step.  While one goroutine is inside such an
\* assignment, an access to the Cache map by another is a data race: the Go
\* runtime may stop the process ("concurrent map writes", "concurrent map read
\* and map write") or the access may go through.

WName == [w \in Workers |-> IF w = "w1" THEN "a" ELSE "b"]
WValue == "v1"

InitWorkers ==
    /\ InitCache
    /\ \E n2 \in Nodes : procs = [w \in Workers |-> IF w = "w1" THEN Idle("n1") ELSE Idle(n2)]
    /\ recon = ReconOff
    /\ hook = HookOff
    /\ gen = GenOff

Goto(w, pc) == procs' = [procs EXCEPT ![w].pc = pc]
Done(w) == procs' = [procs EXCEPT ![w].pc = "idle", ![w].ops = @ + 1]

\* the runtime detects the race and stops the process
Fatal(w, op) ==
    /\ writing \ {w} # {}
    /\ crashed' = TRUE
    /\ last' = Call(op, procs[w].node, 0, Nil, "fatal")
    /\ UNCHANGED <<cache, heap, xds, published, corrupts, wvars, recon, hook, gen>>

\* cache[nodeID] is nil and is dereferenced
WPanic(w, op) ==
    /\ procs[w].node \notin DOMAIN cache
    /\ crashed' = TRUE
    /\ last' = Call(op, procs[w].node, 0, Nil, "panic")
    /\ UNCHANGED <<cache, heap, xds, published, corrupts, wvars, recon, hook, gen>>

\* NewNodeCache: the snapshot is built, the assignment cache[nodeID] = &ncache begins
WNewBegin(w) ==
    /\ ~crashed /\ procs[w].pc = "idle" /\ procs[w].ops < MaxWorkerOps
    /\ \/ /\ writing' = writing \cup {w}
          /\ Goto(w, "new")
          /\ UNCHANGED <<cache, heap, xds, last, crashed, published, corrupts, recon, hook, gen>>
       \/ Fatal(w, "NewNodeCache")

\* NewNodeCache: the assignment lands
WNewEnd(w) ==
    /\ ~crashed /\ procs[w].pc = "new"
    /\ Store(NewNodeCache(cache, procs[w].node), heap, xds)
    /\ writing' = writing \ {w}
    /\ Done(w)
    /\ last' = Call("NewNodeCache", procs[w].node, 0, Nil, Nil)
    /\ UNCHANGED <<crashed, published, corrupts, recon, hook, gen>>

\* DeleteNodeCache: delete(cache, nodeID) begins
WDeleteBegin(w) ==
    /\ ~crashed /\ procs[w].pc = "idle" /\ procs[w].ops < MaxWorkerOps
    /\ \/ /\ writing' = writing \cup {w}
          /\ Goto(w, "delete")
          /\ UNCHANGED <<cache, heap, xds, last, crashed, published, corrupts, recon, hook, gen>>
       \/ Fatal(w, "DeleteNodeCache")

\* DeleteNodeCache: the delete lands
WDeleteEnd(w) ==
    /\ ~crashed /\ procs[w].pc = "delete"
    /\ Store(DeleteNodeCache(cache, procs[w].node), heap, xds)
    /\ writing' = writing \ {w}
    /\ Done(w)
    /\ last' = Call("DeleteNodeCache", procs[w].node, 0, Nil, Nil)
    /\ UNCHANGED <<crashed, published, corrupts, recon, hook, gen>>

\* SetResource, first or further mutation of a transaction
WSetResource(w) ==
    /\ ~crashed
    /\ \/ procs[w].pc = "idle" /\ procs[w].ops < MaxWorkerOps
       \/ procs[w].pc = "dirty"
    /\ \/ /\ procs[w].node \in DOMAIN cache
          /\ heap' = SetResource(cache, heap, procs[w].node, WName[w], Cluster, WValue)
          /\ Goto(w, "dirty")
          /\ last' = Call("SetResource", procs[w].node, 0, Nil, Nil)
          /\ UNCHANGED <<cache, xds, crashed, published, corrupts, writing, recon, hook, gen>>
       \/ WPanic(w, "SetResource")
       \/ Fatal(w, "SetResource")

\* DeleteResource, first or further mutation of a transaction
WDeleteResource(w) ==
    /\ ~crashed
    /\ \/ procs[w].pc = "idle" /\ procs[w].ops < MaxWorkerOps
       \/ procs[w].pc = "dirty"
    /\ \/ /\ procs[w].node \in DOMAIN cache
          /\ heap' = DeleteResource(cache, heap, procs[w].node, WName[w], Cluster)
          /\ Goto(w, "dirty")
          /\ last' = Call("DeleteResource", procs[w].node, 0, Nil, Nil)
          /\ UNCHANGED <<cache, xds, crashed, published, corrupts, writing, recon, hook, gen>>
       \/ WPanic(w, "DeleteResource")
       \/ Fatal(w, "DeleteResource")

\* BumpCacheVersion, line 136: version, err := strconv.Atoi(...); version++
WBumpRead(w) ==
    /\ ~crashed /\ procs[w].pc = "dirty"
    /\ \/ /\ procs[w].node \in DOMAIN cache
          /\ LET r == GetCurrentVersion(cache, procs[w].node)
             IN /\ r.err = Nil
                /\ r.ret + 1 <= MaxVersion
                /\ procs' = [procs EXCEPT ![w].pc = "bump", ![w].version = r.ret + 1, ![w].i = 0]
          /\ UNCHANGED <<cache, heap, xds, last, crashed, published, corrupts, writing, recon, hook, gen>>
       \/ WPanic(w, "BumpCacheVersion")
       \/ Fatal(w, "BumpCacheVersion")

\* BumpCacheVersion, line 144: one turn of the loop; after the sixth it returns
WBumpWrite(w) ==
    /\ ~crashed /\ procs[w].pc = "bump"
    /\ \/ /\ procs[w].node \in DOMAIN cache
          /\ cache' = [cache EXCEPT ![procs[w].node].Resources[procs[w].i].Version =
                                       Itoa(procs[w].version)]
          /\ IF procs[w].i = 5
             THEN /\ procs' = [procs EXCEPT ![w].pc = "bumped", ![w].i = 0]
                  /\ last' = Call("BumpCacheVersion", procs[w].node, procs[w].version, Nil, Nil)
             ELSE /\ procs' = [procs EXCEPT ![w].i = @ + 1]
                  /\ last' = last
          /\ UNCHANGED <<heap, xds, crashed, published, corrupts, writing, recon, hook, gen>>
       \/ WPanic(w, "BumpCacheVersion")
       \/ Fatal(w, "BumpCacheVersion")

\* SetSnapshot ends the transaction
WSetSnapshot(w) ==
    /\ ~crashed /\ procs[w].pc = "bumped"
    /\ \/ /\ procs[w].node \in DOMAIN cache
          /\ Store(cache, heap, SetSnapshot(cache, xds, procs[w].node))
          /\ published' = Put(published, procs[w].node, View(cache[procs[w].node], heap))
          /\ Done(w)
          /\ last' = Call("SetSnapshot", procs[w].node, 0, Nil, Nil)
          /\ UNCHANGED <<crashed, corrupts, writing, recon, hook, gen>>
       \/ WPanic(w, "SetSnapshot")
       \/ Fatal(w, "SetSnapshot")

NextWorkers ==
    \E w \in Workers :
        \/ WNewBegin(w)
        \/ WNewEnd(w)
        \/ WDeleteBegin(w)
        \/ WDeleteEnd(w)
        \/ WSetResource(w)
        \/ WDeleteResource(w)
        \/ WBumpRead(w)
        \/ WBumpWrite(w)
        \/ WSetSnapshot(w)

SpecWorkers == InitWorkers /\ [][NextWorkers]_vars

----------------------------------------------------------------------------
\* The admission webhook of EnvoyConfig (package v1alpha1).  Its methods are
\* exercised by envoyconfig_webhook_test.go; their bodies are written from the
\* contract table of the specification and from what those tests expect.
\* A pointer or slice field is Nil or set; an inline value or an envoy resource
\* is set to a payload that is a valid resource of its type or not.

ResourceTypes == {"cluster", "secret", "endpoint"}
Payloads == {"valid", "invalid"}
Set == "set"

Resource ==
    [Type : ResourceTypes,
     Value : {Nil} \cup Payloads,
     GenerateFromEndpointSlices : {Nil, Set},
     GenerateFromTlsSecret : {Nil, Set},
     Blueprint : {Nil, Set}]

\* a Go slice, or a pointer to lists: nil, or the elements it holds (maybe none)
NilList == [nil |-> TRUE, elems |-> << >>]
List(s) == [nil |-> FALSE, elems |-> s]
ListsUpTo(S, n) == {NilList} \cup {List(s) : s \in UNION {[1..k -> S] : k \in 0..n}}

\* EnvoyConfigSpec: Resources is a slice of Resource, EnvoyResources a pointer
\* to the envoy resources it lists
EnvoyConfigs ==
    [Resources : ListsUpTo(Resource, MaxResources),
     EnvoyResources : ListsUpTo(Payloads, MaxResources)]

\* the errors ValidateResources collects for one entry of spec.Resources
ResourceErrors(res) ==
    CASE res.Type = "secret" ->
            (IF res.GenerateFromTlsSecret = Nil THEN {"generateFromTlsSecret cannot be empty"} ELSE {})
            \cup (IF res.Value # Nil THEN {"value cannot be used"} ELSE {})
            \cup (IF res.GenerateFromEndpointSlices # Nil
                  THEN {"generateFromEndpointSlice cannot be used"} ELSE {})
      [] res.Type = "endpoint" ->
            (IF res.GenerateFromEndpointSlices # Nil /\ res.Value # Nil
             THEN {"only one of value, generateFromEndpointSlice"} ELSE {})
            \cup (IF res.GenerateFromEndpointSlices = Nil /\ res.Value = Nil
                  THEN {"one of value, generateFromEndpointSlice must be set"} ELSE {})
            \cup (IF res.GenerateFromTlsSecret # Nil THEN {"generateFromTlsSecret cannot be used"} ELSE {})
            \cup (IF res.Blueprint # Nil THEN {"blueprint cannot be used"} ELSE {})
            \cup (IF res.Value = "invalid" THEN {"value is not a valid resource"} ELSE {})
      [] OTHER ->
            (IF res.Value = Nil THEN {"value cannot be empty"} ELSE {})
            \cup (IF res.Value = "invalid" THEN {"value is not a valid resource"} ELSE {})
            \cup (IF res.Blueprint # Nil THEN {"blueprint cannot be used"} ELSE {})
            \cup (IF res.GenerateFromEndpointSlices # Nil
                  THEN {"generateFromEndpointSlice cannot be used"} ELSE {})
            \cup (IF res.GenerateFromTlsSecret # Nil THEN {"generateFromTlsSecret cannot be used"} ELSE {})

\* what a range loop over the list walks
Elems(l) == {l.elems[i] : i \in 1..Len(l.elems)}
Invalid == "invalid"

\* ValidateResources that lets an endpoint carry both sources
ValidateResources_Both(r) ==
    IF \E res \in Elems(r.Resources) :
          ResourceErrors(res) \ {"only one of value, generateFromEndpointSlice"} # {}
    THEN Invalid ELSE Nil

\* ValidateResources: an error when some entry of spec.Resources has errors
ValidateResources(r) ==
    IF \E res \in Elems(r.Resources) : ResourceErrors(res) # {} THEN Invalid ELSE Nil

\* ValidateEnvoyResources: an error when some envoy resource does not parse
ValidateEnvoyResources(r) ==
    IF \E p \in Elems(r.EnvoyResources) : p = "invalid" THEN Invalid ELSE Nil

\* Validate that takes an empty list for an unset field
Validate_Len(r) ==
    IF Len(r.EnvoyResources.elems) > 0 /\ Len(r.Resources.elems) > 0 THEN Invalid
    ELSE IF Len(r.EnvoyResources.elems) = 0 /\ Len(r.Resources.elems) = 0 THEN Invalid
    ELSE IF Len(r.EnvoyResources.elems) > 0 THEN ValidateEnvoyResources(r)
    ELSE ValidateResources(r)

\* Validate: exactly one of spec.EnvoyResources, spec.Resources, then its validation
Validate(r) ==
    IF ~r.EnvoyResources.nil /\ ~r.Resources.nil THEN Invalid
    ELSE IF r.EnvoyResources.nil /\ r.Resources.nil THEN Invalid
    ELSE IF ~r.EnvoyResources.nil THEN ValidateEnvoyResources(r)
    ELSE ValidateResources(r)

InitWebhook ==
    /\ InitCache
    /\ procs = [w \in Workers |-> Idle("n1")]
    /\ recon = ReconOff
    /\ \E o \in EnvoyConfigs : hook = [pc |-> "new", obj |-> o, op |-> Nil, err |-> Nil]
    /\ gen = GenOff

Verdict(op, err) == [hook EXCEPT !.pc = "done", !.op = op, !.err = err]

DoValidateResources ==
    /\ hook.pc = "new"
    /\ hook' = Verdict("ValidateResources", ValidateResources(hook.obj))
    /\ UNCHANGED cvars

DoValidateEnvoyResources ==
    /\ hook.pc = "new"
    /\ hook' = Verdict("ValidateEnvoyResources", ValidateEnvoyResources(hook.obj))
    /\ UNCHANGED cvars

DoValidate ==
    /\ hook.pc = "new"
    /\ hook' = Verdict("Validate", Validate(hook.obj))
    /\ UNCHANGED cvars

NextWebhook ==
    \/ DoValidateResources
    \/ DoValidateEnvoyResources
    \/ DoValidate

SpecWebhook == InitWebhook /\ [][NextWebhook]_vars

----------------------------------------------------------------------------
\* The tables of envoyconfig_webhook_test.go: the EnvoyConfig of each case and
\* its wantErr

Res(type, value, slices, tls, blueprint) ==
    [Type |-> type, Value |-> value, GenerateFromEndpointSlices |-> slices,
     GenerateFromTlsSecret |-> tls, Blueprint |-> blueprint]
Case(resources, envoyResources, wantErr) ==
    [r |-> [Resources |-> resources, EnvoyResources |-> envoyResources], wantErr |-> wantErr]
One(res) == List(<<res>>)

\* TestEnvoyConfig_ValidateResources
ValidateResourcesTests ==
    { Case(One(Res("cluster", "valid", Nil, Nil, Nil)), NilList, FALSE),
      Case(One(Res("cluster", "invalid", Nil, Nil, Nil)), NilList, TRUE),
      Case(One(Res("cluster", Nil, Nil, Nil, Nil)), NilList, TRUE),
      Case(One(Res("cluster", "valid", Nil, Nil, Set)), NilList, TRUE),
      Case(One(Res("cluster", "valid", Set, Nil, Nil)), NilList, TRUE),
      Case(One(Res("cluster", "valid", Nil, Set, Nil)), NilList, TRUE),
      Case(One(Res("secret", Nil, Nil, Set, Nil)), NilList, FALSE),
      Case(One(Res("secret", Nil, Nil, Nil, Nil)), NilList, TRUE),
      Case(One(Res("secret", "invalid", Nil, Nil, Nil)), NilList, TRUE),
      Case(One(Res("secret", Nil, Set, Nil, Nil)), NilList, TRUE),
      Case(One(Res("endpoint", Nil, Set, Nil, Nil)), NilList, FALSE),
      Case(One(Res("endpoint", "invalid", Set, Nil, Nil)), NilList, TRUE),
      Case(One(Res("endpoint", Nil, Nil, Nil, Nil)), NilList, TRUE),
      Case(One(Res("endpoint", Nil, Nil, Set, Nil)), NilList, TRUE),
      Case(One(Res("endpoint", Nil, Nil, Nil, Set)), NilList, TRUE) }

\* TestEnvoyConfig_Validate
ValidateTests ==
    { Case(NilList, One("valid"), FALSE),
      Case(One(Res("cluster", "valid", Nil, Nil, Nil)), NilList, FALSE),
      Case(List(<< >>), List(<< >>), TRUE),
      Case(NilList, NilList, TRUE) }

----------------------------------------------------------------------------
\* The envoy container generator (src/pkg/envoy/container/generator.go).
\* Strings built from parts are the sequence of their parts; a pointer field is
\* a record with a nil flag.

ContainerPort(name, port, protocol) ==
    [Name |-> name, ContainerPort |-> port, Protocol |-> protocol]

PortValues == {ContainerPort("http", 8080, ""), ContainerPort("https", 8443, "TCP")}
ArgValues == {"--log-level", "debug"}
ProbeSpecs == {[InitialDelaySeconds |-> 30, TimeoutSeconds |-> 1, PeriodSeconds |-> 10,
                SuccessThreshold |-> 1, FailureThreshold |-> 10]}

\* the ContainerConfig values Containers is called on
ContainerConfigs ==
    [Name : {"envoy-sidecar"},
     Image : {"envoyproxy/envoy"},
     ConfigBasePath : {"/etc/envoy/bootstrap"},
     ConfigFileName : {"config.json"},
     ConfigVolume : {"envoy-sidecar-bootstrap"},
     TLSBasePath : {"/etc/envoy/tls/client"},
     TLSVolume : {"envoy-sidecar-tls"},
     NodeID : {"node"},
     ClusterID : {"cluster"},
     ExtraArgs : UNION {[1..k -> ArgValues] : k \in 0..MaxExtraArgs},
     Resources : {"resources"},
     AdminPort : {9901, 9902},
     Ports : UNION {[1..k -> PortValues] : k \in 0..MaxPorts},
     LivenessProbe : ProbeSpecs,
     ReadinessProbe : ProbeSpecs,
     ShutdownManagerEnabled : BOOLEAN,
     ShutdownManagerPort : {8090, 8091}]

\* &corev1.HTTPGetAction{Path, Port, Scheme}
HTTPGet(path, port, scheme) == [Path |-> path, Port |-> port, Scheme |-> scheme]

\* &corev1.Probe{...} of the envoy container: /ready on the admin port
ReadyProbe(port, spec) ==
    [HTTPGet |-> HTTPGet("/ready", port, ""),
     InitialDelaySeconds |-> spec.InitialDelaySeconds,
     TimeoutSeconds |-> spec.TimeoutSeconds,
     PeriodSeconds |-> spec.PeriodSeconds,
     SuccessThreshold |-> spec.SuccessThreshold,
     FailureThreshold |-> spec.FailureThreshold]

\* the Lifecycle pointer: nil, or a PreStop HTTP GET handler
NoLifecycle == [nil |-> TRUE, PreStop |-> HTTPGet("", 0, "")]
PreStop(path, port) == [nil |-> FALSE, PreStop |-> HTTPGet(path, port, "HTTP")]

\* the Args closure, lines 42-54
EnvoyArgs(cc) ==
    LET args == <<"-c", <<cc.ConfigBasePath, "/", cc.ConfigFileName>>,
                  "--service-node", cc.NodeID, "--service-cluster", cc.ClusterID>>
    IN IF Len(cc.ExtraArgs) > 0 THEN args \o cc.ExtraArgs ELSE args

\* the container literal of lines 38-101
EnvoyContainer(cc) ==
    [Name |-> cc.Name,
     Image |-> <<cc.Image>>,
     Command |-> <<"envoy">>,
     Args |-> EnvoyArgs(cc),
     Resources |-> cc.Resources,
     Ports |-> Append(cc.Ports, ContainerPort("admin", cc.AdminPort, "")),
     VolumeMounts |-> <<[Name |-> cc.TLSVolume, ReadOnly |-> TRUE, MountPath |-> cc.TLSBasePath],
                        [Name |-> cc.ConfigVolume, ReadOnly |-> TRUE, MountPath |-> cc.ConfigBasePath]>>,
     LivenessProbe |-> ReadyProbe(cc.AdminPort, cc.LivenessProbe),
     ReadinessProbe |-> ReadyProbe(cc.AdminPort, cc.ReadinessProbe),
     Lifecycle |-> NoLifecycle]

\* the container literal of lines 104-138
ShutdownManagerContainer(cc) ==
    [Name |-> "envoy-shutdown-manager",
     Image |-> <<"DefaultImageRegistry", ":", "version.Current()">>,
     Command |-> << >>,
     Args |-> <<"shutdown-manager">>,
     Resources |-> "none",
     Ports |-> <<ContainerPort("shutdown-manager", cc.ShutdownManagerPort, "TCP")>>,
     VolumeMounts |-> << >>,
     LivenessProbe |-> [HTTPGet |-> HTTPGet("/health", cc.ShutdownManagerPort, "HTTP"),
                        InitialDelaySeconds |-> 3, TimeoutSeconds |-> 0, PeriodSeconds |-> 10,
                        SuccessThreshold |-> 0, FailureThreshold |-> 0],
     ReadinessProbe |-> [HTTPGet |-> HTTPGet("", 0, ""),
                         InitialDelaySeconds |-> 0, TimeoutSeconds |-> 0, PeriodSeconds |-> 0,
                         SuccessThreshold |-> 0, FailureThreshold |-> 0],
     Lifecycle |-> PreStop("/drain", cc.ShutdownManagerPort)]

\* Containers whose envoy container gets no PreStop hook (lines 140-148 left out)
Containers_NoWait(cc) ==
    IF cc.ShutdownManagerEnabled
    THEN <<EnvoyContainer(cc), ShutdownManagerContainer(cc)>>
    ELSE <<EnvoyContainer(cc)>>

\* ContainerConfig.Containers
Containers(cc) ==
    LET containers == <<EnvoyContainer(cc)>>
    IN IF cc.ShutdownManagerEnabled
       THEN [Append(containers, ShutdownManagerContainer(cc)) EXCEPT
                ![1].Lifecycle = PreStop("/wait-for-drain", cc.ShutdownManagerPort)]
       ELSE containers

InitGenerator ==
    /\ InitCache
    /\ procs = [w \in Workers |-> Idle("n1")]
    /\ recon = ReconOff
    /\ hook = HookOff
    /\ \E cc \in ContainerConfigs : gen = [pc |-> "new", cc |-> cc, out |-> << >>]

DoContainers ==
    /\ gen.pc = "new"
    /\ gen' = [gen EXCEPT !.pc = "done", !.out = Containers(gen.cc)]
    /\ UNCHANGED gvars

NextGenerator == DoContainers

SpecGenerator == InitGenerator /\ [][NextGenerator]_vars

----------------------------------------------------------------------------
\* Properties

Active(n) == n \in DOMAIN cache
VersionOf(c, n, t) == c[n].Resources[t].Version
ItemsOf(c, h, n, t) == h[c[n].Resources[t].Items]
Did(op, n) == last'.op = op /\ last'.node = n /\ ~crashed'

\* C1: on an Active node BumpCacheVersion returns the version GetCurrentVersion
\* read just before plus one, afterwards all six collections carry that number
\* as their version string, and no collection's items change.
C1_BumpAddsOne ==
    [][\A n \in Nodes : (Did("BumpCacheVersion", n) /\ Active(n)) =>
          /\ GetCurrentVersion(cache, n).err = Nil
          /\ last'.err = Nil
          /\ last'.ret = GetCurrentVersion(cache, n).ret + 1
          /\ \A t \in RTypes : VersionOf(cache', n, t) = Itoa(last'.ret)
          /\ \A t \in RTypes : ItemsOf(cache', heap', n, t) = ItemsOf(cache, heap, n, t)]_vars

C1_Witness ==
    /\ last.op = "BumpCacheVersion" /\ last.node = "n1" /\ last.ret = 3
    /\ Active("n1")
    /\ \A t \in RTypes : VersionOf(cache, "n1", t) = <<"3">>
    /\ ItemsOf(cache, heap, "n1", Cluster) # EmptyMap

\* C2: what the xds server holds for a node is always the node's snapshot as it
\* was at its latest SetSnapshot: later calls on the cache do not change it.
C2_ServedIsLastPublished ==
    \A n \in DOMAIN xds : View(xds[n], heap) = published[n]

\* C3: every method but NewNodeCache (and DeleteNodeCache) called for a node id
\* that is not in the cache returns the UnknownNode error and changes nothing.
\* (The nil of GetNodeCache is taken as its way to report the unknown node.)
C3_AbsentFailsWithUnknownNode ==
    [][\A n \in Nodes :
          (/\ ~Active(n)
           /\ last'.node = n
           /\ last'.op \notin {"NewNodeCache", "DeleteNodeCache", "GetNodeCache"}) =>
          (/\ last'.err = "UnknownNode"
           /\ ~crashed'
           /\ cache' = cache /\ heap' = heap /\ xds' = xds)]_vars

\* C4: on an Active node GetResource right after SetResource of the same key
\* gives the value set and the key is there once; GetResource right after
\* DeleteResource gives not-found; other names and types are as before.
OtherKeysKept(n, name, rtype) ==
    \A t \in RTypes, nm \in Names :
        (t # rtype \/ nm # name) =>
            GetResource(cache', heap', n, nm, t) = GetResource(cache, heap, n, nm, t)

\* the step is the call SetResource(n, nm, t, v) on an Active node
SetResourceStep(n, nm, t, v) ==
    /\ Did("SetResource", n) /\ Active(n)
    /\ heap'[cache[n].Resources[t].Items] = SetResource(cache, heap, n, nm, t, v)[cache[n].Resources[t].Items]
    /\ cache' = cache
    /\ heap' = SetResource(cache, heap, n, nm, t, v)

\* the step is the call DeleteResource(n, nm, t) on an Active node
DeleteResourceStep(n, nm, t) ==
    /\ Did("DeleteResource", n) /\ Active(n)
    /\ heap'[cache[n].Resources[t].Items] = DeleteResource(cache, heap, n, nm, t)[cache[n].Resources[t].Items]
    /\ cache' = cache
    /\ heap' = DeleteResource(cache, heap, n, nm, t)

C4_SetGetDelete ==
    [][\A n \in Nodes, nm \in Names, t \in InTypes :
          /\ \A v \in Values :
                SetResourceStep(n, nm, t, v) =>
                    /\ GetResource(cache', heap', n, nm, t) = v
                    /\ DOMAIN ItemsOf(cache', heap', n, t) = DOMAIN ItemsOf(cache, heap, n, t) \cup {nm}
                    /\ OtherKeysKept(n, nm, t)
          /\ DeleteResourceStep(n, nm, t) =>
                    /\ GetResource(cache', heap', n, nm, t) = NotFound
                    /\ OtherKeysKept(n, nm, t)]_vars

C4_Witness ==
    /\ last.op = "SetResource" /\ last.node = "n1" /\ Active("n1")
    /\ GetResource(cache, heap, "n1", "a", Cluster) = "v2"
    /\ GetResource(cache, heap, "n1", "b", Cluster) = "v1"

\* C5: ClearResources(node, type) leaves that collection empty and leaves the
\* items of the other five types, the six versions and every other node as
\* they were.
C5_ClearOnlyOne ==
    [][\A n \in Nodes, t \in InTypes :
          (Did("ClearResources", n) /\ DoClearResources(n, t)) =>
              /\ ItemsOf(cache', heap', n, t) = EmptyMap
              /\ \A t2 \in RTypes \ {t} :
                    ItemsOf(cache', heap', n, t2) = ItemsOf(cache, heap, n, t2)
              /\ \A t2 \in RTypes : VersionOf(cache', n, t2) = VersionOf(cache, n, t2)
              /\ DOMAIN cache' = DOMAIN cache
              /\ \A m \in DOMAIN cache \ {n} :
                    View(cache'[m], heap') = View(cache[m], heap)]_vars

C5_Witness ==
    /\ last.op = "ClearResources" /\ last.node = "n1" /\ Active("n1") /\ Active("n2")
    /\ ItemsOf(cache, heap, "n1", Cluster) = EmptyMap
    /\ ItemsOf(cache, heap, "n1", Endpoint) # EmptyMap
    /\ ItemsOf(cache, heap, "n2", Cluster) # EmptyMap

\* C6: from any state NewNodeCache(node) leaves the node with six empty
\* collections, all at version "1", and GetCurrentVersion then returns 1.
C6_NewNodeIsEmptyAtOne ==
    [][\A n \in Nodes : Did("NewNodeCache", n) =>
          /\ n \in DOMAIN cache'
          /\ \A t \in RTypes : /\ VersionOf(cache', n, t) = <<"1">>
                               /\ ItemsOf(cache', heap', n, t) = EmptyMap
          /\ GetCurrentVersion(cache', n) = [ret |-> 1, err |-> Nil]]_vars

C6_Witness ==
    /\ last.op = "NewNodeCache" /\ last.node = "n1" /\ Active("n1")
    /\ Active("n2") /\ VersionOf(cache, "n2", Endpoint) = <<"3">>
    /\ HeapItems(heap) = MaxItems

\* C7: SetResource, DeleteResource, ClearResources, GetResource, GetNodeCache
\* and SetSnapshot change no Version field of any collection of any node, so
\* GetCurrentVersion gives the same result after them as before.
C7_VersionKept ==
    [][(last'.op \in {"SetResource", "DeleteResource", "ClearResources",
                      "GetResource", "GetNodeCache", "SetSnapshot"}) =>
          /\ DOMAIN cache' = DOMAIN cache
          /\ \A n \in DOMAIN cache :
                /\ \A t \in RTypes : VersionOf(cache', n, t) = VersionOf(cache, n, t)
                /\ GetCurrentVersion(cache', n) = GetCurrentVersion(cache, n)]_vars

C7_Witness ==
    /\ last.op = "ClearResources" /\ last.node = "n1" /\ Active("n1")
    /\ \A t \in RTypes : VersionOf(cache, "n1", t) = <<"3">>
    /\ "n1" \in DOMAIN xds /\ xds["n1"].Resources[Cluster].Version = <<"2">>
    /\ Active("n2")

\* C8: when the version string BumpCacheVersion reads does not parse, it
\* returns the error of the parse and the node's snapshot is as it was: no
\* item and no Version field changes.
C8_BumpOnCorruptVersion ==
    [][\A n \in Nodes :
          (/\ Did("BumpCacheVersion", n) /\ Active(n)
           /\ ~AtoiOk(VersionOf(cache, n, 0))) =>
              /\ last'.err = "NumError"
              /\ cache' = cache
              /\ View(cache'[n], heap') = View(cache[n], heap)]_vars

C8_Witness ==
    /\ last.op = "BumpCacheVersion" /\ last.node = "n1" /\ last.err = "NumError"
    /\ Active("n1")
    /\ VersionOf(cache, "n1", Endpoint) = <<"x">>
    /\ VersionOf(cache, "n1", Cluster) = <<"2">>
    /\ ItemsOf(cache, heap, "n1", Cluster) # EmptyMap

\* C9: with two goroutines running transactions on the same node, a snapshot
\* is deposited only at a transaction boundary: when one goroutine's SetSnapshot
\* runs, the other is not between its first mutation and the end of its bump.
C9_PublishedAtTransactionBoundary ==
    [][\A w \in Workers :
          (procs[w].pc = "bumped" /\ procs'[w].pc = "idle" /\ ~crashed') =>
          \A u \in Workers \ {w} :
              procs[u].node = procs[w].node => procs[u].pc \notin {"dirty", "bump"}]_vars

\* C10: goroutines working on different node ids never write the shared Cache
\* map at the same time.
C10_NoSimultaneousMapWrite ==
    (\A w, u \in Workers : w # u => procs[w].node # procs[u].node) =>
        Cardinality(writing) <= 1


\* C11: when the xds server does not accept the snapshot, SetSnapshot returns
\* that failure to its caller as a PublishFailure, and the cache is as before.
C11_RefusalIsReturned ==
    [][(last'.op = "SetSnapshot" /\ last'.val = PublishFailure) =>
          /\ last'.err = PublishFailure
          /\ cache' = cache /\ heap' = heap]_vars


\* C12: from NewNodeCache, after the k-th cycle of SetResource for every
\* desired resource, BumpCacheVersion, SetSnapshot, the xds server holds for
\* the node version k+1 in all six collections and exactly the desired
\* resources: each desired name once with its value, nothing else, and the
\* types without desired resources empty.
DesiredOf(d, t) == [nm \in {nm \in Names : <<t, nm>> \in DOMAIN d} |-> d[<<t, nm>>]]

C12_CyclePublishesDesired ==
    (recon.pc \in {"mutate", "publish"} /\ recon.cycles >= 1) =>
        /\ recon.node \in DOMAIN xds
        /\ \A t \in RTypes :
              /\ xds[recon.node].Resources[t].Version = Itoa(recon.cycles + 1)
              /\ Deref(heap, xds[recon.node].Resources[t].Items) = DesiredOf(recon.desired, t)

C12_Witness ==
    /\ recon.cycles = 2 /\ last.op = "SetSnapshot"
    /\ Cardinality(DOMAIN recon.desired) = 2
    /\ xds[recon.node].Resources[Cluster].Version = <<"3">>
    /\ DOMAIN Deref(heap, xds[recon.node].Resources[Cluster].Items) = {"a", "b"}


\* C13: every node id is either not in the cache or has a snapshot with all
\* six collections, each with an Items map that exists (maybe empty) and a
\* Version that parses to an integer >= 1; also after a call that failed.
C13_AbsentOrComplete ==
    \A n \in DOMAIN cache :
        /\ DOMAIN cache[n].Resources = RTypes
        /\ \A t \in RTypes :
              /\ cache[n].Resources[t].Items \in DOMAIN heap
              /\ AtoiOk(VersionOf(cache, n, t))
              /\ AtoiVal(VersionOf(cache, n, t)) >= 1

C13_Witness ==
    /\ crashed /\ last.err = "panic" /\ last.node = "n1" /\ ~Active("n1")
    /\ Active("n2")
    /\ VersionOf(cache, "n2", Runtime) = <<"3">>
    /\ ItemsOf(cache, heap, "n2", Cluster) # EmptyMap


\* C14: after every call the six collections of each node in the cache carry
\* the same version string, so what GetCurrentVersion parses from the first is
\* the version of all six; a Version field changes only in NewNodeCache (to
\* "1") and in BumpCacheVersion, and only for the node of the call.
C14_VersionsAgree ==
    [][/\ \A n \in DOMAIN cache' : \A t \in RTypes :
             /\ VersionOf(cache', n, t) = VersionOf(cache', n, 0)
             /\ AtoiVal(VersionOf(cache', n, t)) = GetCurrentVersion(cache', n).ret
       /\ \A n \in DOMAIN cache' : \A t \in RTypes :
             (n \notin DOMAIN cache \/ VersionOf(cache', n, t) # VersionOf(cache, n, t)) =>
                 /\ last'.node = n
                 /\ \/ last'.op = "NewNodeCache" /\ VersionOf(cache', n, t) = <<"1">>
                    \/ last'.op = "BumpCacheVersion"]_vars

C14_Witness ==
    /\ last.op = "SetSnapshot" /\ Active("n1") /\ Active("n2")
    /\ \A t \in RTypes : VersionOf(cache, "n1", t) = <<"3">>
    /\ \A t \in RTypes : VersionOf(cache, "n2", t) = <<"1">>
    /\ ItemsOf(cache, heap, "n1", Cluster) # EmptyMap


\* C15: GetCurrentVersion and BumpCacheVersion succeed exactly when the stored
\* version is a positive integer string shared by the six collections; on "0",
\* on "-3", on a string that does not parse and on versions that disagree they
\* return the corruption error.
StoredVersionValid(c, n) ==
    /\ \A t \in RTypes : VersionOf(c, n, t) = VersionOf(c, n, 0)
    /\ AtoiOk(VersionOf(c, n, 0))
    /\ AtoiVal(VersionOf(c, n, 0)) >= 1

C15_FailsUnlessPositive ==
    [][\A n \in Nodes :
          (/\ last'.op \in {"GetCurrentVersion", "BumpCacheVersion"}
           /\ last'.node = n /\ Active(n) /\ ~crashed') =>
              (last'.err = Nil <=> StoredVersionValid(cache, n))]_vars


\* C16: a call on one node that fails does not stop the program: the process
\* keeps running (every method can still be called on the other nodes) and the
\* snapshot of every other node is as before.
C16_FailureStaysLocal ==
    [][\A n \in Nodes :
          (last'.node = n /\ last'.err # Nil) =>
              /\ ~crashed'
              /\ \A m \in Nodes \ {n} :
                    /\ (m \in DOMAIN cache') = (m \in DOMAIN cache)
                    /\ m \in DOMAIN cache => View(cache'[m], heap') = View(cache[m], heap)]_vars


\* C17: for one node id the versions of the snapshots deposited in the xds
\* server never go down, also across DeleteNodeCache / NewNodeCache, and
\* BumpCacheVersion returns more than the version deposited before.
XdsVersion(x, n) == AtoiVal(x[n].Resources[0].Version)

C17_VersionsNeverGoBack ==
    [][\A n \in DOMAIN xds :
          /\ Did("SetSnapshot", n) => XdsVersion(xds', n) >= XdsVersion(xds, n)
          /\ Did("BumpCacheVersion", n) => last'.ret > XdsVersion(xds, n)]_vars


\* C18: DeleteNodeCache of a node id that is not in the cache, and
\* DeleteResource of a name that is not in the addressed collection of an
\* Active node, return normally and change nothing; DeleteNodeCache of an
\* Active node removes that node and leaves every other node as it was.
C18_DeleteEffects ==
    [][\A n \in Nodes :
          /\ (Did("DeleteNodeCache", n) /\ ~Active(n)) =>
                /\ last'.err = Nil
                /\ cache' = cache /\ heap' = heap /\ xds' = xds
          /\ (Did("DeleteNodeCache", n) /\ Active(n)) =>
                /\ last'.err = Nil
                /\ DOMAIN cache' = DOMAIN cache \ {n}
                /\ \A m \in DOMAIN cache' : View(cache'[m], heap') = View(cache[m], heap)
          /\ \A nm \in Names, t \in InTypes :
                (/\ DeleteResourceStep(n, nm, t)
                 /\ nm \notin DOMAIN ItemsOf(cache, heap, n, t)) =>
                    /\ last'.err = Nil
                    /\ cache' = cache /\ heap' = heap /\ xds' = xds]_vars

C18_Witness ==
    /\ last.op = "DeleteNodeCache" /\ last.node = "n1" /\ ~crashed
    /\ ~Active("n1") /\ Active("n2")
    /\ VersionOf(cache, "n2", Cluster) = <<"2">>
    /\ DOMAIN ItemsOf(cache, heap, "n2", Cluster) = {"a", "b"}


\* the verdict of the call agrees with the wantErr of every case of the test
\* table that has this EnvoyConfig
Called(op) == hook.pc = "done" /\ hook.op = op
AsTested(tests) == \A c \in tests : c.r = hook.obj => ((hook.err # Nil) = c.wantErr)

\* the contract table: the populated source fields match the declared type
FieldsMatchType(res) ==
    CASE res.Type = "cluster" ->
            /\ res.Value # Nil
            /\ res.Blueprint = Nil
            /\ res.GenerateFromEndpointSlices = Nil
            /\ res.GenerateFromTlsSecret = Nil
      [] res.Type = "secret" ->
            /\ res.GenerateFromTlsSecret # Nil
            /\ res.Value = Nil
            /\ res.GenerateFromEndpointSlices = Nil
      [] res.Type = "endpoint" ->
            /\ (res.Value # Nil) # (res.GenerateFromEndpointSlices # Nil)
            /\ res.GenerateFromTlsSecret = Nil
            /\ res.Blueprint = Nil

\* C19: ValidateResources returns no error exactly when the populated source
\* fields of every resource match its declared type (the contract table), for
\* every combination of set and unset fields and type.
C19_VerdictIsTheTable ==
    Called("ValidateResources") =>
        (hook.err = Nil <=> \A res \in Elems(hook.obj.Resources) : FieldsMatchType(res))

\* C19 as amended: a resource whose fields do not match its type is refused;
\* resources whose fields match and whose inline values are valid are
\* accepted; a cluster with an inline value that is not a valid cluster is
\* refused although its fields match.
C19_TableAndValidValue ==
    Called("ValidateResources") =>
        /\ (\E res \in Elems(hook.obj.Resources) : ~FieldsMatchType(res)) => hook.err # Nil
        /\ (\A res \in Elems(hook.obj.Resources) :
                FieldsMatchType(res) /\ res.Value # "invalid") => hook.err = Nil
        /\ (\E res \in Elems(hook.obj.Resources) :
                res.Type = "cluster" /\ res.Value = "invalid") => hook.err # Nil
        /\ AsTested(ValidateResourcesTests)

C19_Witness ==
    /\ Called("ValidateResources") /\ hook.err # Nil
    /\ hook.obj.Resources = One(Res("cluster", "invalid", Nil, Nil, Nil))

\* C20: Validate returns an error when spec.EnvoyResources and spec.Resources
\* are both set (also when both are empty) and when neither is set; with
\* exactly one set it returns what the validation of that one returns.
C20_ExactlyOneSource ==
    Called("Validate") =>
        /\ (~hook.obj.EnvoyResources.nil /\ ~hook.obj.Resources.nil) => hook.err # Nil
        /\ (hook.obj.EnvoyResources.nil /\ hook.obj.Resources.nil) => hook.err # Nil
        /\ (~hook.obj.EnvoyResources.nil /\ hook.obj.Resources.nil) =>
                hook.err = ValidateEnvoyResources(hook.obj)
        /\ (hook.obj.EnvoyResources.nil /\ ~hook.obj.Resources.nil) =>
                hook.err = ValidateResources(hook.obj)
        /\ AsTested(ValidateTests)

C20_Witness ==
    /\ Called("Validate") /\ hook.err # Nil
    /\ hook.obj.Resources = List(<< >>) /\ hook.obj.EnvoyResources = List(<< >>)


\* C21: BumpCacheVersion is atomic among goroutines on one node: two calls
\* that have both read their version never hold the same new version (from v
\* they return v+1 and v+2), and a snapshot deposited by SetSnapshot never
\* carries differing versions in its six collections.
C21_BumpIsAtomic ==
    /\ \A w, u \in Workers :
          (/\ w # u /\ procs[w].node = procs[u].node
           /\ procs[w].pc \in {"bump", "bumped"}
           /\ procs[u].pc \in {"bump", "bumped"}) =>
              procs[w].version # procs[u].version
    /\ \A n \in DOMAIN xds : \A t \in RTypes :
          xds[n].Resources[t].Version = xds[n].Resources[0].Version


\* C22: a version names one configuration: whenever what the xds server holds
\* for a node carries the same version strings after a step as before it (a new
\* deposit at the same version, or the same deposit seen later), the resources
\* in all six collections are the same too.
C22_VersionNamesOneContent ==
    [][\A n \in (DOMAIN xds) \cap (DOMAIN xds') :
          (\A t \in RTypes : xds'[n].Resources[t].Version = xds[n].Resources[t].Version) =>
              View(xds'[n], heap') = View(xds[n], heap)]_vars


\* C23: Containers returns one container, the envoy one without lifecycle
\* hook, when ShutdownManagerEnabled is false, and two when it is true: first
\* the envoy container with a PreStop HTTP GET of /wait-for-drain on
\* ShutdownManagerPort, then envoy-shutdown-manager with a PreStop of /drain on
\* the same port.  Either way the ports of the envoy container are cc.Ports
\* followed by one port "admin" = AdminPort, and its arguments are the six
\* fixed ones followed by ExtraArgs.
IsEnvoy(c, cc) ==
    /\ c.Name = cc.Name
    /\ c.Command = <<"envoy">>
    /\ Len(c.Ports) = Len(cc.Ports) + 1
    /\ SubSeq(c.Ports, 1, Len(cc.Ports)) = cc.Ports
    /\ c.Ports[Len(c.Ports)].Name = "admin"
    /\ c.Ports[Len(c.Ports)].ContainerPort = cc.AdminPort
    /\ Len(c.Args) = 6 + Len(cc.ExtraArgs)
    /\ c.Args[1] = "-c"
    /\ c.Args[2] = <<cc.ConfigBasePath, "/", cc.ConfigFileName>>
    /\ c.Args[3] = "--service-node" /\ c.Args[4] = cc.NodeID
    /\ c.Args[5] = "--service-cluster" /\ c.Args[6] = cc.ClusterID
    /\ SubSeq(c.Args, 7, Len(c.Args)) = cc.ExtraArgs

HasPreStop(c, path, port) ==
    /\ ~c.Lifecycle.nil
    /\ c.Lifecycle.PreStop.Path = path
    /\ c.Lifecycle.PreStop.Port = port

C23_ContainersShape ==
    gen.pc = "done" =>
        /\ IsEnvoy(gen.out[1], gen.cc)
        /\ ~gen.cc.ShutdownManagerEnabled =>
              /\ Len(gen.out) = 1
              /\ gen.out[1].Lifecycle.nil
        /\ gen.cc.ShutdownManagerEnabled =>
              /\ Len(gen.out) = 2
              /\ HasPreStop(gen.out[1], "/wait-for-drain", gen.cc.ShutdownManagerPort)
              /\ gen.out[2].Name = "envoy-shutdown-manager"
              /\ HasPreStop(gen.out[2], "/drain", gen.cc.ShutdownManagerPort)

C23_Witness ==
    /\ gen.pc = "done" /\ gen.cc.ShutdownManagerEnabled
    /\ Len(gen.out) = 2
    /\ Len(gen.cc.Ports) = 1 /\ Len(gen.cc.ExtraArgs) = 1
    /\ Len(gen.out[1].Ports) = 2 /\ Len(gen.out[1].Args) = 7

====
